---- MODULE Spec2Model ----
(***************************************************************************)
(* osmnx/elevation.py: node elevations fetched in batches from an          *)
(* elevation service through a URL-keyed response cache, and edge grades   *)
(* derived from them.                                                      *)
(*                                                                         *)
(* Units.  Coordinates are integers counting quarters of the last decimal  *)
(* place kept by decimal_places_to_round; elevations returned by the       *)
(* service count 10^-5 m; node elevations count 10^-3 m (after round(3));  *)
(* edge lengths count metres; grades count 10^-4 (after round(., 4)).      *)
(* A Python name that is not bound yet, or a missing attribute, is the     *)
(* empty sequence <<>>; a bound one is the one-element sequence <<v>>.     *)
(***************************************************************************)
EXTENDS Integers, Sequences, FiniteSets, TLC

\* ------------------------------------------------------------------ bounds
MaxN == 3        \* most coordinate pairs (graph nodes) of a run
MaxBatch == 2    \* max_locations_per_batch ranges over 1..MaxBatch
MaxCalls == 2    \* most invocations of fetch and add_node_elevations in a run
MaxEdges == 3    \* most edges of a graph whose edges are graded
MaxPassEdges == 2    \* most edges of a graph annotated by both kinds of pass

\* ------------------------------------------------------- program constants
ElevationDecimals == 3      \* df['elevation'].round(3)
GradeDecimals == 4          \* round(elevation_change / data['length'], 4)

VARIABLES
    G,                          \* the graph: nodes in order, node data, edges
    cache,                      \* the response cache: url -> parsed response
    pc,                         \* position of the running call
    caller,                     \* entry point of the running call
    calls,                      \* calls that reach the service started so far
    latitude_longitude_pairs,   \* the DataFrame rows handed to fetch
    elevation_column,           \* the DataFrame's 'elevation' column, once set
    url_template,               \* fetch's url_template argument
    max_locations_per_batch,    \* fetch's max_locations_per_batch argument
    i,                          \* the for loop's index (line 70)
    chunk,                      \* line 71
    url,                        \* line 73
    response,                   \* line 84: bound once requests.get returned
    response_json,              \* lines 78 and 85
    results,                    \* lines 69 and 92
    err,                        \* the exception that ended the call, if any
    announced,                  \* the call count logged at line 65
    batches,                    \* history: one record per batch handled
    events,                     \* history: what the running call did, in order
    prev,                       \* history: the call before the running one
    add_absolute,               \* add_edge_grades' add_absolute argument
    edge_i,                     \* add_edge_grades' place in G.edges
    G_entry                     \* history: the graph as the running call found it

fetch_vars == <<latitude_longitude_pairs, elevation_column, url_template,
                i, chunk, url, response, response_json, results, announced>>
edge_vars == <<add_absolute, edge_i>>
vars == <<G, cache, pc, caller, calls, max_locations_per_batch, fetch_vars,
          err, batches, events, prev, edge_vars, G_entry>>

\* ------------------------------------------------------------------ helpers
Min(a, b) == IF a < b THEN a ELSE b

Abs(x) == IF x < 0 THEN -x ELSE x

RECURSIVE Pow10(_)
Pow10(k) == IF k = 0 THEN 1 ELSE 10 * Pow10(k - 1)

\* math.ceil(n / b) for n >= 0, b >= 1 (line 65)
Ceil(n, b) == (n + b - 1) \div b

\* Rounding n/d (d > 0) to the nearest integer, ties to the even one: what
\* numpy's round (line 160) and Python's round (line 192) do.
RoundHalfEven(n, d) ==
    LET q == n \div d
        r == n % d
    IN  IF 2 * r < d THEN q
        ELSE IF 2 * r > d THEN q + 1
        ELSE IF q % 2 = 0 THEN q ELSE q + 1

\* --------------------------------------------------------------- the inputs
\* The coordinate pairs a run may hold: two places, neither on a kept
\* decimal place, so that formatting rounds both.
Points == { [latitude |-> 1, longitude |-> 5],
            [latitude |-> 3, longitude |-> -3] }

ApiKey == "k"

\* Node identifiers in the graph's iteration order: descending, so that the
\* order of the identifiers is not the order of the rows.
NodeIdAt(k) == 100 - k

\* An elevation a node carries from an earlier annotation (10^-3 m).
OldElevation == 100 * 1000 - 1

\* The graph a run starts with: every other node was annotated before.
PriorElevation(k) == IF k % 2 = 1 THEN <<OldElevation>> ELSE <<>>

\* url_template defaults of the two entry points, and a caller's template
\* '...locations={}&key={api_key}'.  A template is the sequence of its
\* replacement fields: "" is the auto-numbered field {}.
FetchDefaultTemplate == <<"locations", "api_key">>
NodeDefaultTemplate == <<"", "">>
CallerTemplate == <<"", "api_key">>

\* ---------------------------------------------------- the elevation service
\* What the service answers for one location at the time of call `epoch`
\* (10^-5 m): a different value per location, drifting from call to call.
ServiceElevation(loc, epoch) ==
    12345678 - 16667128 * loc[1] + 700 * (epoch - 1)

\* A result no location asked for, which a misbehaving service may add.
ExtraElevation == 555 * Pow10(5)

\* The bodies a request may bring back: one result per location, one result
\* too few, one too many, or a body that is not JSON.
Bodies == {"exact", "short", "long", "not_json"}

ServiceReply(locations, body, epoch) ==
    LET full == [k \in 1..Len(locations) |->
                    [elevation |-> ServiceElevation(locations[k], epoch)]]
        res == CASE body = "short" -> SubSeq(full, 1, Len(full) - 1)
                 [] body = "long" -> Append(full, [elevation |-> ExtraElevation])
                 [] OTHER -> full
    IN  [status_code |-> IF body = "not_json" THEN 500 ELSE 200,
         json |-> IF body = "not_json" THEN <<>> ELSE <<[results |-> res]>>]

\* ------------------------------------------------------------ the cache
\* core.get_from_cache: the stored response, or None.
get_from_cache(c, u) == IF u \in DOMAIN c THEN <<c[u]>> ELSE <<>>

\* core.save_to_cache: store the response under the url.
save_to_cache(c, u, v) ==
    [k \in (DOMAIN c) \cup {u} |-> IF k = u THEN v ELSE c[k]]

\* ------------------------------------------------- fetch's pure pieces
\* Mutant of CacheHit: whatever the lookup gave is taken for a hit.
CacheHit_Always(cached_response_json) == TRUE

\* Mutant of CacheHit: the test inverted into one that never finds a hit.
CacheHit_Never(cached_response_json) == FALSE

\* cached_response_json is not None
CacheHit(cached_response_json) == cached_response_json # <<>>

\* '{:.Pf}'.format(c): the coordinate to the nearest kept decimal place.
FormatCoord(c) == RoundHalfEven(c, 4)

\* latlng_pair_format_string.format(row.latitude, row.longitude)
FormatPair(row) == <<FormatCoord(row.latitude), FormatCoord(row.longitude)>>

\* '|'.join(... for row in chunk.itertuples())
JoinLocations(rows) == [k \in 1..Len(rows) |-> FormatPair(rows[k])]

\* Mutant of Iloc: the slice's end taken one row too far.
Iloc_OffByOne(rows, from, to) == SubSeq(rows, from + 1, Min(to + 1, Len(rows)))

\* latitude_longitude_pairs.iloc[i : i + max_locations_per_batch]
Iloc(rows, from, to) == SubSeq(rows, from + 1, Min(to, Len(rows)))

\* str.format(*args, **kwargs) on a template: field k takes the next
\* positional argument when it is {} and kwargs[name] when it is {name}; the
\* first field that cannot be filled raises.
AutoIndex(template, k) == Cardinality({j \in 1..k : template[j] = ""})

FieldError(template, args, kwargs, k) ==
    IF template[k] = ""
    THEN IF AutoIndex(template, k) > Len(args) THEN "IndexError" ELSE ""
    ELSE IF template[k] \in DOMAIN kwargs THEN "" ELSE "KeyError"

StrFormat(template, args, kwargs) ==
    LET bad == {k \in 1..Len(template) : FieldError(template, args, kwargs, k) # ""}
        first == CHOOSE k \in bad : \A j \in bad : k <= j
    IN  IF bad # {}
        THEN [error |-> FieldError(template, args, kwargs, first), text |-> <<>>]
        ELSE [error |-> "",
              text |-> <<[template |-> template,
                          fields |-> [k \in 1..Len(template) |->
                              IF template[k] = ""
                              THEN args[AutoIndex(template, k)]
                              ELSE kwargs[template[k]]]]>>]

\* url_template.format(locations, **url_template_kwargs)
BuildUrl(template, locations, kwargs) == StrFormat(template, <<locations>>, kwargs)

\* Mutant of ResponseBound: the status read as if a response always existed.
ResponseBound_Always(r) == TRUE

\* response.status_code, response.reason (line 89) can be read
ResponseBound(r) == r # <<>>

\* Mutant of ExtendResults: the batch's results put in front.
ExtendResults_Prepend(old, new) == new \o old

\* results.extend(response_json['results'])
ExtendResults(old, new) == old \o new

\* Mutants of CardinalityOk: the equality weakened to either side.
CardinalityOk_AtMost(res, pairs) == Len(res) <= Len(pairs)

CardinalityOk_AtLeast(res, pairs) == Len(res) >= Len(pairs)

\* len(results) == len(latitude_longitude_pairs)
CardinalityOk(res, pairs) == Len(res) = Len(pairs)

\* [result['elevation'] for result in results]
ElevationsOf(res) == [k \in 1..Len(res) |-> res[k].elevation]

\* ---------------------------------------------------------- the graph
\* ((node, data['y'], data['x']) for (node, data) in G.nodes(data=True)),
\* as a DataFrame indexed by node_id
NodeTable(g) ==
    [k \in 1..Len(g.order) |->
        [node_id |-> g.order[k],
         latitude |-> g.node[g.order[k]].y,
         longitude |-> g.node[g.order[k]].x]]

\* df['elevation'].round(3): 10^-5 m to the nearest 10^-3 m
RoundElevation(e) == RoundHalfEven(e, Pow10(5 - ElevationDecimals))

\* df['elevation'].round(3).to_dict(): node_id -> elevation
ElevationDict(rows, column) ==
    [n \in {rows[k].node_id : k \in 1..Len(rows)} |->
        LET k == CHOOSE j \in 1..Len(rows) : rows[j].node_id = n
        IN  RoundElevation(column[k])]

\* nx.set_node_attributes(G, name='elevation', values=d)
set_node_attributes(g, d) ==
    [g EXCEPT !.node = [n \in DOMAIN g.node |->
        IF n \in DOMAIN d
        THEN [g.node[n] EXCEPT !.elevation = <<d[n]>>]
        ELSE g.node[n]]]

MakeGraph(pts) ==
    [order |-> [k \in 1..Len(pts) |-> NodeIdAt(k)],
     node |-> [n \in {NodeIdAt(k) : k \in 1..Len(pts)} |->
                 LET k == CHOOSE j \in 1..Len(pts) : NodeIdAt(j) = n
                 IN  [y |-> pts[k].latitude, x |-> pts[k].longitude,
                      elevation |-> PriorElevation(k)]],
     edges |-> <<>>]

\* ------------------------------------------------------------- histories
NewBatch(c, u) ==
    [chunk |-> c, url |-> u, source |-> "lookup", answer |-> <<>>,
     before |-> <<>>, appended |-> 0, extended |-> FALSE]

\* The record of the batch in hand, changed.
LastBatch == batches[Len(batches)]

SetLast(r) == [batches EXCEPT ![Len(batches)] = r]

Count(evs, kind) == Cardinality({k \in 1..Len(evs) : evs[k][1] = kind})

\* ------------------------------------------------------------------ Init
Init ==
    /\ \E n \in 0..MaxN : \E pts \in [1..n -> Points] : G = MakeGraph(pts)
    /\ max_locations_per_batch \in 1..MaxBatch
    /\ cache = <<>>
    /\ pc = "idle"
    /\ caller = ""
    /\ calls = 0
    /\ latitude_longitude_pairs = <<>>
    /\ elevation_column = <<>>
    /\ url_template = <<>>
    /\ i = 0
    /\ chunk = <<>>
    /\ url = <<>>
    /\ response = <<>>
    /\ response_json = <<>>
    /\ results = <<>>
    /\ err = ""
    /\ announced = 0
    /\ batches = <<>>
    /\ events = <<>>
    /\ prev = <<>>
    /\ add_absolute = TRUE
    /\ edge_i = 0
    /\ G_entry = G

\* --------------------------------- fetch_elevations_for_latitude_longitude_pairs
\* Lines 21-69: the call binds its arguments, logs the number of calls it
\* is about to make and starts with no results; response and response_json
\* are locals of the call, not bound yet.
EnterFetch(rows, template) ==
    /\ latitude_longitude_pairs' = rows
    /\ elevation_column' = <<>>
    /\ url_template' = template
    /\ announced' = Ceil(Len(rows), max_locations_per_batch)
    /\ results' = <<>>
    /\ i' = 0
    /\ chunk' = <<>>
    /\ url' = <<>>
    /\ response' = <<>>
    /\ response_json' = <<>>
    /\ err' = ""
    /\ batches' = <<>>
    /\ events' = <<>>
    /\ pc' = "for"

\* A caller invokes fetch on the coordinate table of the graph's nodes with
\* url_template_kwargs = {'api_key': k}, leaving url_template to its default
\* or passing its own.
FetchCall ==
    /\ pc = "idle"
    /\ UNCHANGED edge_vars
    /\ G_entry' = G
    /\ calls < MaxCalls
    /\ \E template \in {FetchDefaultTemplate, CallerTemplate} :
          EnterFetch(NodeTable(G), template)
    /\ caller' = "fetch"
    /\ calls' = calls + 1
    /\ UNCHANGED <<G, cache, max_locations_per_batch, prev>>

\* Lines 70-73: the next chunk, its locations string and its url; the loop
\* ends when the range is exhausted, and url_template.format may raise.
ForNext ==
    /\ pc = "for"
    /\ UNCHANGED <<edge_vars, G_entry>>
    /\ IF i < Len(latitude_longitude_pairs)
       THEN LET c == Iloc(latitude_longitude_pairs, i, i + max_locations_per_batch)
                u == BuildUrl(url_template, JoinLocations(c), [api_key |-> ApiKey])
            IN  /\ chunk' = c
                /\ IF u.error # ""
                   THEN /\ pc' = "raised"
                        /\ err' = u.error
                        /\ UNCHANGED <<url, batches>>
                   ELSE /\ pc' = "get_from_cache"
                        /\ url' = u.text
                        /\ batches' = Append(batches, NewBatch(c, u.text[1]))
                        /\ UNCHANGED err
       ELSE /\ pc' = "check"
            /\ UNCHANGED <<chunk, url, err, batches>>
    /\ UNCHANGED <<G, cache, caller, calls, max_locations_per_batch,
                   latitude_longitude_pairs, elevation_column, url_template, i,
                   response, response_json, results, announced, events, prev>>

\* Lines 76-79: the cache is asked first; a hit is the batch's response.
GetFromCache ==
    /\ pc = "get_from_cache"
    /\ UNCHANGED <<edge_vars, G_entry>>
    /\ LET cached_response_json == get_from_cache(cache, url[1])
       IN  IF CacheHit(cached_response_json)
           THEN /\ response_json' = cached_response_json
                /\ batches' = SetLast([LastBatch EXCEPT !.source = "cache",
                                          !.answer = cached_response_json])
                /\ pc' = "extend"
           ELSE /\ batches' = SetLast([LastBatch EXCEPT !.source = "miss"])
                /\ pc' = "request"
                /\ UNCHANGED response_json
    /\ events' = Append(events, <<"lookup", Len(batches)>>)
    /\ UNCHANGED <<G, cache, caller, calls, max_locations_per_batch,
                   latitude_longitude_pairs, elevation_column, url_template, i,
                   chunk, url, response, results, err, announced, prev>>

\* Lines 82-84: log, time.sleep(pause_duration), requests.get(url).  The
\* request raises (no response object is bound) or returns a response.
Request ==
    /\ pc = "request"
    /\ UNCHANGED <<edge_vars, G_entry>>
    /\ events' = events \o <<  <<"pause", Len(batches)>>, <<"request", Len(batches)>>  >>
    /\ \/ /\ pc' = "except"
          /\ UNCHANGED response
       \/ \E body \in Bodies :
            /\ response' = <<ServiceReply(url[1].fields[1], body, calls)>>
            /\ pc' = "json"
    /\ UNCHANGED <<G, cache, caller, calls, max_locations_per_batch,
                   latitude_longitude_pairs, elevation_column, url_template, i,
                   chunk, url, response_json, results, err, announced,
                   batches, prev>>

\* Line 85: response.json() parses the body or raises.
Json ==
    /\ pc = "json"
    /\ UNCHANGED <<edge_vars, G_entry>>
    /\ events' = Append(events, <<"parse", Len(batches)>>)
    /\ IF response[1].json = <<>>
       THEN /\ pc' = "except"
            /\ UNCHANGED response_json
       ELSE /\ response_json' = response[1].json
            /\ pc' = "save_to_cache"
    /\ UNCHANGED <<G, cache, caller, calls, max_locations_per_batch,
                   latitude_longitude_pairs, elevation_column, url_template, i,
                   chunk, url, response, results, err, announced, batches, prev>>

\* Mutant of SaveToCache: the response is stored only when it has one
\* result per location of the batch.
SaveToCache_OnlyRightCount ==
    /\ pc = "save_to_cache"
    /\ UNCHANGED <<edge_vars, G_entry>>
    /\ cache' = IF Len(response_json[1].results) = Len(chunk)
                THEN save_to_cache(cache, url[1], response_json[1])
                ELSE cache
    /\ events' = Append(events, <<"store", Len(batches)>>)
    /\ batches' = SetLast([LastBatch EXCEPT !.source = "network",
                              !.answer = response_json])
    /\ pc' = "extend"
    /\ UNCHANGED <<G, caller, calls, max_locations_per_batch, fetch_vars, err,
                   prev>>

\* Line 86: the parsed response is stored under the url.
SaveToCache ==
    /\ pc = "save_to_cache"
    /\ UNCHANGED <<edge_vars, G_entry>>
    /\ cache' = save_to_cache(cache, url[1], response_json[1])
    /\ events' = Append(events, <<"store", Len(batches)>>)
    /\ batches' = SetLast([LastBatch EXCEPT !.source = "network",
                              !.answer = response_json])
    /\ pc' = "extend"
    /\ UNCHANGED <<G, caller, calls, max_locations_per_batch, fetch_vars, err,
                   prev>>

\* Mutant of Except: the store done on the way out of a failed batch too, as
\* in a finally clause, with whatever response_json is bound to.
Except_StoresCarriedOver ==
    /\ pc = "except"
    /\ UNCHANGED <<edge_vars, G_entry>>
    /\ batches' = SetLast([LastBatch EXCEPT !.source = "failed"])
    /\ events' = Append(events, <<"log", Len(batches)>>)
    /\ cache' = IF response_json = <<>>
                THEN cache
                ELSE save_to_cache(cache, url[1], response_json[1])
    /\ IF ~ResponseBound(response)
       THEN /\ pc' = "raised"
            /\ err' = "UnboundLocalError"
       ELSE /\ pc' = "extend"
            /\ UNCHANGED err
    /\ UNCHANGED <<G, caller, calls, max_locations_per_batch, fetch_vars, prev>>

\* Lines 87-89: the exception is logged, then response.status_code is read,
\* which raises when no response object is bound in this call.
Except ==
    /\ pc = "except"
    /\ UNCHANGED <<edge_vars, G_entry>>
    /\ batches' = SetLast([LastBatch EXCEPT !.source = "failed"])
    /\ events' = Append(events, <<"log", Len(batches)>>)
    /\ IF ~ResponseBound(response)
       THEN /\ pc' = "raised"
            /\ err' = "UnboundLocalError"
       ELSE /\ pc' = "extend"
            /\ UNCHANGED err
    /\ UNCHANGED <<G, cache, caller, calls, max_locations_per_batch, fetch_vars,
                   prev>>

\* Line 92: whatever response_json is bound to is appended to the results;
\* reading it raises when it is not bound.
Extend ==
    /\ pc = "extend"
    /\ UNCHANGED <<edge_vars, G_entry>>
    /\ IF response_json = <<>>
       THEN /\ pc' = "raised"
            /\ err' = "UnboundLocalError"
            /\ UNCHANGED <<results, i, batches>>
       ELSE /\ results' = ExtendResults(results, response_json[1].results)
            /\ i' = i + max_locations_per_batch
            /\ batches' = SetLast([LastBatch EXCEPT !.before = results,
                                      !.appended = Len(response_json[1].results),
                                      !.extended = TRUE])
            /\ pc' = "for"
            /\ UNCHANGED err
    /\ UNCHANGED <<G, cache, caller, calls, max_locations_per_batch,
                   latitude_longitude_pairs, elevation_column, url_template,
                   chunk, url, response, response_json, announced, events, prev>>

\* Mutant of Check: the elevations at hand are written to the nodes before
\* the count is validated.
Check_AnnotatesFirst ==
    /\ pc = "check"
    /\ UNCHANGED <<edge_vars, G_entry>>
    /\ LET m == Min(Len(results), Len(latitude_longitude_pairs))
       IN  G' = IF caller = "add_node_elevations"
                THEN set_node_attributes(G,
                         ElevationDict(SubSeq(latitude_longitude_pairs, 1, m),
                                       ElevationsOf(SubSeq(results, 1, m))))
                ELSE G
    /\ IF CardinalityOk(results, latitude_longitude_pairs)
       THEN /\ elevation_column' = <<ElevationsOf(results)>>
            /\ pc' = "returned"
            /\ UNCHANGED err
       ELSE /\ pc' = "raised"
            /\ err' = "CardinalityError"
            /\ UNCHANGED elevation_column
    /\ UNCHANGED <<cache, caller, calls, max_locations_per_batch,
                   latitude_longitude_pairs, url_template, i, chunk, url,
                   response, response_json, results, announced, batches,
                   events, prev>>

\* Lines 95-102: the cardinality check, then the elevation column.
Check ==
    /\ pc = "check"
    /\ UNCHANGED <<edge_vars, G_entry>>
    /\ IF CardinalityOk(results, latitude_longitude_pairs)
       THEN /\ elevation_column' = <<ElevationsOf(results)>>
            /\ pc' = "returned"
            /\ UNCHANGED err
       ELSE /\ pc' = "raised"
            /\ err' = "CardinalityError"
            /\ UNCHANGED elevation_column
    /\ UNCHANGED <<G, cache, caller, calls, max_locations_per_batch,
                   latitude_longitude_pairs, url_template, i, chunk, url,
                   response, response_json, results, announced, batches,
                   events, prev>>

\* ------------------------------------------------------ add_node_elevations
\* Lines 138-152: the node table is built (the dtype assertions fail on a
\* graph without nodes, whose columns have no numeric dtype) and handed to
\* fetch with dict(api_key=api_key) and the url_template argument.
AddNodeCall ==
    /\ pc = "idle"
    /\ UNCHANGED edge_vars
    /\ G_entry' = G
    /\ calls < MaxCalls
    /\ caller' = "add_node_elevations"
    /\ calls' = calls + 1
    /\ IF Len(G.order) = 0
       THEN /\ pc' = "node_raised"
            /\ err' = "AssertionError"
            /\ batches' = <<>>
            /\ events' = <<>>
            /\ UNCHANGED fetch_vars
       ELSE \E template \in {NodeDefaultTemplate, CallerTemplate} :
               EnterFetch(NodeTable(G), template)
    /\ UNCHANGED <<G, cache, max_locations_per_batch, prev>>

\* Lines 155-165: the node-count check, the rounding and the write.
AddNodeFinish ==
    /\ pc = "returned"
    /\ UNCHANGED <<edge_vars, G_entry>>
    /\ caller = "add_node_elevations"
    /\ IF Len(elevation_column[1]) = Len(G.order)
       THEN /\ G' = set_node_attributes(G,
                      ElevationDict(latitude_longitude_pairs, elevation_column[1]))
            /\ pc' = "node_done"
            /\ UNCHANGED err
       ELSE /\ pc' = "node_raised"
            /\ err' = "NodeCountError"
            /\ UNCHANGED G
    /\ UNCHANGED <<cache, caller, calls, max_locations_per_batch, fetch_vars,
                   batches, events, prev>>

\* The call is over: its result or its exception goes to the caller.
Finished ==
    \/ pc \in {"raised", "node_done", "node_raised", "edges_done"}
    \/ pc = "returned" /\ caller = "fetch"

Return ==
    /\ Finished
    /\ UNCHANGED <<edge_vars, G_entry>>
    /\ prev' = <<[caller |-> caller, url_template |-> url_template,
                  pc |-> pc, err |-> err, output |-> elevation_column,
                  requests |-> Count(events, "request"),
                  batches |-> batches]>>
    /\ pc' = "idle"
    /\ UNCHANGED <<G, cache, caller, calls, max_locations_per_batch, fetch_vars,
                   err, batches, events>>

Next ==
    \/ FetchCall
    \/ ForNext
    \/ GetFromCache
    \/ Request
    \/ Json
    \/ SaveToCache
    \/ Except
    \/ Extend
    \/ Check
    \/ AddNodeCall
    \/ AddNodeFinish
    \/ Return

Spec == Init /\ [][Next]_vars

\* ---------------------------------------------------------- add_edge_grades
\* Mutant of Grade: the quotient truncated downwards instead of rounded.
Grade_Floor(elevation_u, elevation_v, length) ==
    ((elevation_v - elevation_u) * Pow10(GradeDecimals - ElevationDecimals))
        \div length

\* round(elevation_change / data['length'], 4), in units of 10^-4, from
\* elevations in 10^-3 m and a length in metres (lines 189-192): the
\* quotient of the elevation change in 10^-4 m by the length.
Grade(elevation_u, elevation_v, length) ==
    RoundHalfEven((elevation_v - elevation_u)
                      * Pow10(GradeDecimals - ElevationDecimals), length)

\* The graphs whose edges are graded: two nodes, the first annotated, the
\* second annotated or not; edges in both directions, of several lengths,
\* and a loop at the first node.
GradeElevations == {<<>>, <<110 * 1000>>, <<100 * 1000 + 1>>}

EdgeKinds ==
    {[u |-> NodeIdAt(a), v |-> NodeIdAt(3 - a), length |-> <<l>>,
      grade |-> <<>>, grade_abs |-> <<>>] : a \in {1, 2}, l \in {50, 4, 0}}
    \cup {[u |-> NodeIdAt(1), v |-> NodeIdAt(1), length |-> <<50>>,
            grade |-> <<>>, grade_abs |-> <<>>]}

EdgeLists == UNION {[1..n -> EdgeKinds] : n \in 0..MaxEdges}

InitGrades ==
    /\ \E el \in GradeElevations : \E es \in EdgeLists :
          G = [order |-> <<NodeIdAt(1), NodeIdAt(2)>>,
               node |-> [n \in {NodeIdAt(1), NodeIdAt(2)} |->
                           [y |-> 1, x |-> 5,
                            elevation |-> IF n = NodeIdAt(1)
                                          THEN <<100 * 1000>> ELSE el]],
               edges |-> es]
    /\ max_locations_per_batch = 1
    /\ cache = <<>>
    /\ pc = "idle"
    /\ caller = ""
    /\ calls = 0
    /\ latitude_longitude_pairs = <<>>
    /\ elevation_column = <<>>
    /\ url_template = <<>>
    /\ i = 0
    /\ chunk = <<>>
    /\ url = <<>>
    /\ response = <<>>
    /\ response_json = <<>>
    /\ results = <<>>
    /\ err = ""
    /\ announced = 0
    /\ batches = <<>>
    /\ events = <<>>
    /\ prev = <<>>
    /\ add_absolute = TRUE
    /\ edge_i = 0
    /\ G_entry = G

\* Line 169: the call, with its add_absolute argument.
AddEdgeGradesCall ==
    /\ pc = "idle"
    /\ add_absolute' \in BOOLEAN
    /\ edge_i' = 1
    /\ pc' = "edges"
    /\ caller' = "add_edge_grades"
    /\ err' = ""
    /\ G_entry' = G
    /\ UNCHANGED <<G, cache, calls, max_locations_per_batch, fetch_vars,
                   batches, events, prev>>

\* Mutant of EdgeStep: an edge with an endpoint without elevation is passed
\* over and the loop goes on.
EdgeStep_SkipsUnannotated ==
    /\ pc = "edges"
    /\ IF edge_i > Len(G.edges)
       THEN /\ pc' = "edges_done"
            /\ UNCHANGED <<G, edge_i, err>>
       ELSE LET data == G.edges[edge_i]
                eu == G.node[data.u].elevation
                ev == G.node[data.v].elevation
            IN  IF ev = <<>> \/ eu = <<>> \/ data.length = <<>>
                THEN /\ edge_i' = edge_i + 1
                     /\ UNCHANGED <<G, pc, err>>
                ELSE IF data.length[1] = 0
                THEN /\ pc' = "raised"
                     /\ err' = "ZeroDivisionError"
                     /\ UNCHANGED <<G, edge_i>>
                ELSE LET grade == Grade(eu[1], ev[1], data.length[1])
                     IN  /\ G' = [G EXCEPT !.edges[edge_i] =
                                   [data EXCEPT
                                      !.grade = <<grade>>,
                                      !.grade_abs = IF add_absolute
                                                    THEN <<Abs(grade)>>
                                                    ELSE data.grade_abs]]
                         /\ edge_i' = edge_i + 1
                         /\ UNCHANGED <<pc, err>>
    /\ UNCHANGED <<cache, caller, calls, max_locations_per_batch, fetch_vars,
                   batches, events, prev, add_absolute, G_entry>>

\* Lines 188-198: one turn of the loop over G.edges, or its end.  Reading a
\* missing elevation or length raises KeyError, a zero length raises
\* ZeroDivisionError; the edges graded before keep what was written.
EdgeStep ==
    /\ pc = "edges"
    /\ IF edge_i > Len(G.edges)
       THEN /\ pc' = "edges_done"
            /\ UNCHANGED <<G, edge_i, err>>
       ELSE LET data == G.edges[edge_i]
                eu == G.node[data.u].elevation
                ev == G.node[data.v].elevation
            IN  IF ev = <<>> \/ eu = <<>> \/ data.length = <<>>
                THEN /\ pc' = "raised"
                     /\ err' = "KeyError"
                     /\ UNCHANGED <<G, edge_i>>
                ELSE IF data.length[1] = 0
                THEN /\ pc' = "raised"
                     /\ err' = "ZeroDivisionError"
                     /\ UNCHANGED <<G, edge_i>>
                ELSE LET grade == Grade(eu[1], ev[1], data.length[1])
                     IN  /\ G' = [G EXCEPT !.edges[edge_i] =
                                   [data EXCEPT
                                      !.grade = <<grade>>,
                                      !.grade_abs = IF add_absolute
                                                    THEN <<Abs(grade)>>
                                                    ELSE data.grade_abs]]
                         /\ edge_i' = edge_i + 1
                         /\ UNCHANGED <<pc, err>>
    /\ UNCHANGED <<cache, caller, calls, max_locations_per_batch, fetch_vars,
                   batches, events, prev, add_absolute, G_entry>>

NextGrades ==
    \/ AddEdgeGradesCall
    \/ EdgeStep
    \/ Return

SpecGrades == InitGrades /\ [][NextGrades]_vars

\* ------------------------------------------------- passes on one graph
\* add_node_elevations and add_edge_grades called on the same graph in any
\* order: two annotated nodes at different places, short edges in both
\* directions, one location per batch.  What the service answers differs from
\* the elevations the nodes start with, so the elevations change between
\* passes.
PassEdgeLists ==
    UNION {[1..n -> {e \in EdgeKinds : e.length = <<4>>}] : n \in 0..MaxPassEdges}

InitPasses ==
    /\ \E es \in PassEdgeLists :
          G = [order |-> <<NodeIdAt(1), NodeIdAt(2)>>,
               node |-> [n \in {NodeIdAt(1), NodeIdAt(2)} |->
                           IF n = NodeIdAt(1)
                           THEN [y |-> 1, x |-> 5, elevation |-> <<100 * 1000>>]
                           ELSE [y |-> 3, x |-> -3, elevation |-> <<110 * 1000>>]],
               edges |-> es]
    /\ max_locations_per_batch = 1
    /\ cache = <<>>
    /\ pc = "idle"
    /\ caller = ""
    /\ calls = 0
    /\ latitude_longitude_pairs = <<>>
    /\ elevation_column = <<>>
    /\ url_template = <<>>
    /\ i = 0
    /\ chunk = <<>>
    /\ url = <<>>
    /\ response = <<>>
    /\ response_json = <<>>
    /\ results = <<>>
    /\ err = ""
    /\ announced = 0
    /\ batches = <<>>
    /\ events = <<>>
    /\ prev = <<>>
    /\ add_absolute = TRUE
    /\ edge_i = 0
    /\ G_entry = G

NextPasses ==
    \/ AddNodeCall
    \/ ForNext
    \/ GetFromCache
    \/ Request
    \/ Json
    \/ SaveToCache
    \/ Except
    \/ Extend
    \/ Check
    \/ AddNodeFinish
    \/ AddEdgeGradesCall
    \/ EdgeStep
    \/ Return

SpecPasses == InitPasses /\ [][NextPasses]_vars

\* ======================================================== the claims
\* The running call's fetch has ended: with a result (which add_node_elevations
\* may have used since) or with an exception.
FetchReturned == pc \in {"returned", "node_done"}

FetchRaised == pc = "raised"

FetchEnded == FetchReturned \/ FetchRaised

NPairs == Len(latitude_longitude_pairs)

NBatches == Ceil(NPairs, max_locations_per_batch)

\* The batch got a parsed response, from the cache or from the network.
Answered(b) == b.source \in {"cache", "network"}

Failed(b) == b.source = "failed"

\* The loop of the running call went through all its batches.
LoopCompleted ==
    \/ pc = "check"
    \/ FetchReturned
    \/ FetchRaised /\ err = "CardinalityError"

\* No batch of the call failed and each got one result per location.
EveryBatchExact(bs, n) ==
    /\ Len(bs) = n
    /\ \A k \in 1..Len(bs) :
          /\ Answered(bs[k])
          /\ Len(bs[k].answer[1].results) = Len(bs[k].chunk)

RECURSIVE SumAppended(_)
SumAppended(bs) ==
    IF bs = <<>> THEN 0
    ELSE bs[Len(bs)].appended + SumAppended(SubSeq(bs, 1, Len(bs) - 1))

\* C1: when no batch fails and every batch response holds one result per
\* location, fetch returns a sequence as long as its input in which the
\* elevation of the k-th pair is the result at position (k-1) mod B of the
\* response of batch (k-1) div B, which is what the service answered for
\* that pair's own location.
C1_OrderPreserved ==
    (FetchEnded /\ EveryBatchExact(batches, NBatches)) =>
        /\ FetchReturned
        /\ Len(elevation_column[1]) = NPairs
        /\ \A k \in 1..NPairs :
              LET b == batches[((k - 1) \div max_locations_per_batch) + 1]
                  r == b.answer[1].results[((k - 1) % max_locations_per_batch) + 1]
              IN  /\ elevation_column[1][k] = r.elevation
                  /\ \E epoch \in 1..calls :
                        elevation_column[1][k] =
                            ServiceElevation(FormatPair(latitude_longitude_pairs[k]), epoch)

\* Three pairs in batches of two, the pairs on the two sides of the batch
\* boundary with different elevations.
C1_Witness ==
    /\ pc = "returned"
    /\ EveryBatchExact(batches, NBatches)
    /\ NPairs = 3
    /\ max_locations_per_batch = 2
    /\ elevation_column[1][2] # elevation_column[1][3]

\* C2: a fetch in which some batch suffered a transport or parse failure
\* never returns a result.
C2_FailedBatchNeverReturns ==
    (\E k \in 1..Len(batches) : Failed(batches[k])) => ~FetchReturned

\* C3 (as claimed): a fetch in which a batch response held fewer results
\* than the batch had locations ends with the cardinality error, whatever the
\* other batches brought.
ShortBatch(b) == Answered(b) /\ Len(b.answer[1].results) < Len(b.chunk)

C3_ShortBatchRaises ==
    (FetchEnded /\ \E k \in 1..Len(batches) : ShortBatch(batches[k])) =>
        (FetchRaised /\ err = "CardinalityError")

\* C3 (amended): a fetch in which a batch response held fewer results than
\* the batch had locations, and in which no batch added more results than it
\* had locations, does not return a result: it ends with the cardinality
\* error when its loop went through all batches.
C3_ShortBatchRaisesUnlessOversupplied ==
    (/\ FetchEnded
     /\ \E k \in 1..Len(batches) : ShortBatch(batches[k])
     /\ \A k \in 1..Len(batches) : batches[k].appended <= Len(batches[k].chunk)) =>
        /\ FetchRaised
        /\ Len(batches) = NBatches /\ batches[Len(batches)].extended
              => err = "CardinalityError"

\* Two batches, the first answered one result short, the second in full.
C3_Witness ==
    /\ FetchRaised
    /\ err = "CardinalityError"
    /\ Len(batches) = 2
    /\ ShortBatch(batches[1])
    /\ batches[2].source = "network"
    /\ batches[2].appended = Len(batches[2].chunk)

\* C4: fetch returns only with as many results, collected over all batches,
\* as pairs, and then the elevation column holds those results in order; when
\* the totals differ, or the call raises for another reason, the elevation
\* column is never set.
C4_ReturnsOnlyOnEqualTotals ==
    /\ Len(results) = SumAppended(batches)
    /\ FetchReturned =>
          /\ Len(results) = NPairs
          /\ elevation_column = <<ElevationsOf(results)>>
    /\ (FetchEnded /\ Len(results) # NPairs) =>
          (FetchRaised /\ elevation_column = <<>>)
    /\ FetchRaised => elevation_column = <<>>

\* Results were collected, but not as many as pairs: the call raised.
C4_Witness ==
    /\ FetchRaised
    /\ err = "CardinalityError"
    /\ Len(results) > 0
    /\ Len(results) # NPairs

\* The call before the running one was a fetch with the same arguments.
SameCallBefore ==
    /\ prev # <<>>
    /\ prev[1].pc # "node_raised"
    /\ prev[1].url_template = url_template

Returned(p) == p \in {"returned", "node_done"}

PrevAnswered ==
    /\ Len(prev[1].batches) = NBatches
    /\ \A k \in 1..Len(prev[1].batches) : Answered(prev[1].batches[k])

C6_Batching ==
    LET B == max_locations_per_batch
    IN  /\ \A k \in 1..Len(batches) :
              /\ batches[k].chunk =
                    SubSeq(latitude_longitude_pairs, (k - 1) * B + 1, Min(k * B, NPairs))
              /\ Len(batches[k].chunk) \in 1..B
        /\ Len(batches) <= NBatches
        /\ Count(events, "lookup") <= Len(batches)
        /\ Count(events, "request") <= Count(events, "lookup")
        /\ LoopCompleted =>
              /\ Len(batches) = NBatches
              /\ announced = Len(batches)
              /\ Count(events, "lookup") = Len(batches)
              /\ Count(events, "request") =
                    Cardinality({k \in 1..Len(batches) : batches[k].source # "cache"})
              /\ NPairs > 0 =>
                    Len(batches[Len(batches)].chunk) =
                        IF NPairs % B = 0 THEN B ELSE NPairs % B

\* Three pairs in batches of two: two batches, both requested, the last of
\* one pair.
C6_Witness ==
    /\ pc = "check"
    /\ NPairs = 3
    /\ max_locations_per_batch = 2
    /\ Len(batches) = 2
    /\ Count(events, "request") = 2
    /\ Len(batches[2].chunk) = 1

\* C7: with the default url_template of the entry point called and the API
\* key given as the extra parameter, building the url of a batch raises no
\* formatting error.
DefaultTemplate(entry) ==
    IF entry = "fetch" THEN FetchDefaultTemplate ELSE NodeDefaultTemplate

C7_DefaultTemplateFormats ==
    (pc # "idle" /\ url_template = DefaultTemplate(caller)) =>
        ~(FetchRaised /\ err \in {"KeyError", "IndexError"})

\* C8: after add_node_elevations completed (every response it used holding
\* one result per location), every node carries the elevation the service
\* answered for the node's own coordinates, rounded to 3 decimal places.
C8_NodesCarryOwnElevation ==
    (/\ pc = "node_done"
     /\ \A k \in 1..Len(batches) :
           Answered(batches[k]) =>
               Len(batches[k].answer[1].results) = Len(batches[k].chunk)) =>
        \A n \in DOMAIN G.node :
            /\ G.node[n].elevation # <<>>
            /\ \E epoch \in 1..calls :
                  G.node[n].elevation[1] =
                      RoundElevation(ServiceElevation(
                          FormatPair([latitude |-> G.node[n].y,
                                      longitude |-> G.node[n].x]), epoch))

\* C10: a batch whose network call or parsing failed adds nothing to the
\* running results list: the list after it is the list before it.
C10_FailedBatchAddsNothing ==
    \A k \in 1..Len(batches) :
        (Failed(batches[k]) /\ batches[k].extended) => batches[k].appended = 0

\* C9: after add_edge_grades completed, every edge u -> v carries the
\* multiple of 10^-4 nearest to (elevation[v] - elevation[u]) / length (the
\* even one of two equally near), and with add_absolute its absolute value as
\* grade_abs; an edge and a reverse edge of the same length carry opposite
\* grades; elevations 100 and 110 over a length of 50 give 0.2 and -0.2.
GradesDone == pc = "edges_done"

Reverse(e, f) == e.u = f.v /\ e.v = f.u /\ e.length = f.length

C9_GradeIsRoundedRiseOverRun ==
    GradesDone =>
        /\ \A k \in 1..Len(G.edges) :
              LET e == G.edges[k]
                  n == (G.node[e.v].elevation[1] - G.node[e.u].elevation[1])
                          * Pow10(GradeDecimals)
                  d == e.length[1] * 1000
                  g == e.grade[1]
              IN  /\ e.length[1] > 0
                  /\ e.grade # <<>>
                  /\ 2 * Abs(g * d - n) <= d
                  /\ 2 * Abs(g * d - n) = d => g % 2 = 0
                  /\ add_absolute => e.grade_abs = <<Abs(g)>>
                  /\ (n = 10 * 1000 * Pow10(GradeDecimals) /\ e.length[1] = 50)
                        => g = 2000
                  /\ (n = -10 * 1000 * Pow10(GradeDecimals) /\ e.length[1] = 50)
                        => g = -2000
        /\ \A j, k \in 1..Len(G.edges) :
              Reverse(G.edges[j], G.edges[k]) =>
                  /\ G.edges[j].grade[1] = -G.edges[k].grade[1]
                  /\ add_absolute => G.edges[j].grade_abs = G.edges[k].grade_abs

\* A graded graph with an edge from elevation 100 to 110 of length 50 and
\* its reverse, and a pair of opposite edges whose quotient is not a multiple
\* of 10^-4.
C9_Witness ==
    /\ GradesDone
    /\ add_absolute
    /\ \E j, k \in 1..Len(G.edges) :
          /\ Reverse(G.edges[j], G.edges[k])
          /\ G.edges[j].grade = <<2000>>
          /\ G.edges[k].grade = <<-2000>>
          /\ G.edges[j].grade_abs = <<2000>>
          /\ G.edges[k].grade_abs = <<2000>>

\* C11: a batch whose network call raised while no request of the running
\* call had returned a response (the first batch, or only cache hits before
\* it) ends the fetch in the except block with the unbound-name error: the
\* batch is the last one handled, nothing is appended for it and the
\* cardinality check is not reached.
HasEvent(kind, k) == \E p \in 1..Len(events) : events[p] = <<kind, k>>

\* requests.get raised for batch k: it was requested and never parsed.
TransportFailed(k) ==
    /\ Failed(batches[k])
    /\ HasEvent("log", k)
    /\ ~HasEvent("parse", k)

\* No request of the running call returned a response before batch k's.
NoResponseBefore(k) == \A j \in 1..(k - 1) : ~HasEvent("parse", j)

C11_RecoveryFailsWithoutResponse ==
    \A k \in 1..Len(batches) :
        (pc # "idle" /\ TransportFailed(k) /\ NoResponseBefore(k)) =>
            /\ pc = "raised"
            /\ err = "UnboundLocalError"
            /\ k = Len(batches)
            /\ ~batches[k].extended
            /\ elevation_column = <<>>

\* The second batch's request raises after a first batch served from the
\* cache.
C11_Witness ==
    /\ pc = "raised"
    /\ err = "UnboundLocalError"
    /\ Len(batches) = 2
    /\ batches[1].source = "cache"
    /\ batches[1].extended
    /\ TransportFailed(2)

\* C12: the batches of a fetch are handled one after another in input
\* order.  Each batch starts with the cache lookup of its url; a hit is
\* followed by neither pause nor request; a miss is followed by the pause,
\* the request, the parse and the store under the same url, in this order and
\* before the next batch's lookup (a failure ends the batch with the logged
\* exception instead).  So a request comes only after a miss on its url and a
\* pause, and no request is made while another batch is in hand.
EventFollows(p) ==
    LET kind == events[p][1]
        k == events[p][2]
        before == events[p - 1]
    IN  CASE kind = "lookup" ->
                 \/ p = 1 /\ k = 1
                 \/ /\ p > 1
                    /\ k = before[2] + 1
                    /\ before[1] \in {"lookup", "store", "log"}
                    /\ before[1] = "lookup" => batches[k - 1].source = "cache"
          [] kind = "pause" ->
                 /\ p > 1
                 /\ before = <<"lookup", k>>
                 /\ batches[k].source # "cache"
          [] kind = "request" -> p > 1 /\ before = <<"pause", k>>
          [] kind = "parse" -> p > 1 /\ before = <<"request", k>>
          [] kind = "store" ->
                 /\ p > 1
                 /\ before = <<"parse", k>>
                 /\ batches[k].url \in DOMAIN cache
                 /\ <<cache[batches[k].url]>> = batches[k].answer
          [] kind = "log" ->
                 /\ p > 1
                 /\ before \in {<<"request", k>>, <<"parse", k>>}
          [] OTHER -> FALSE

C12_BatchProtocolOrder ==
    /\ \A p \in 1..Len(events) :
          /\ events[p][2] \in 1..Len(batches)
          /\ EventFollows(p)
    /\ \A k \in 1..Len(batches) :
          /\ batches[k].chunk =
                 Iloc(latitude_longitude_pairs,
                      (k - 1) * max_locations_per_batch,
                      k * max_locations_per_batch)
          /\ batches[k].source = "cache" =>
                 /\ batches[k].url \in DOMAIN cache
                 /\ batches[k].answer = <<cache[batches[k].url]>>
                 /\ ~HasEvent("pause", k)
                 /\ ~HasEvent("request", k)
          /\ batches[k].source = "network" =>
                 HasEvent("request", k) /\ HasEvent("store", k)
    /\ pc \in {"request", "json", "save_to_cache"} =>
          /\ url[1] \notin DOMAIN cache
          /\ url[1] = LastBatch.url
          /\ LastBatch.source = "miss"

\* A fetch of two batches at its check: the first came from the cache, the
\* second was a miss that was requested, parsed and stored.
C12_Witness ==
    /\ pc = "check"
    /\ Len(batches) = 2
    /\ batches[1].source = "cache"
    /\ batches[2].source = "network"
    /\ events = << <<"lookup", 1>>, <<"lookup", 2>>, <<"pause", 2>>,
                   <<"request", 2>>, <<"parse", 2>>, <<"store", 2>> >>

\* C13: after any sequence of add_node_elevations and add_edge_grades
\* passes on one graph, when an add_edge_grades pass has gone through all the
\* edges, every edge carries the grade of this pass (that of the nodes'
\* elevations as they are now) and nothing of an earlier pass: an edge that
\* carries grade_abs has grade_abs = abs(grade).  Stated for the runs in
\* which no batch of the last add_node_elevations pass failed.
C13_LatestPassOverwrites ==
    (/\ caller = "add_edge_grades"
     /\ pc = "edges_done"
     /\ \A k \in 1..Len(batches) : ~Failed(batches[k])) =>
        \A k \in 1..Len(G.edges) :
            LET e == G.edges[k]
            IN  /\ e.grade = <<Grade(G.node[e.u].elevation[1],
                                     G.node[e.v].elevation[1], e.length[1])>>
                /\ e.grade_abs # <<>> => e.grade_abs = <<Abs(e.grade[1])>>

\* C14: add_edge_grades ends with an error at the first edge, in iteration
\* order, that has an endpoint without elevation; it never goes past such an
\* edge.  That edge and all later ones are as the call found them, the edges
\* before it carry the grade (and, with add_absolute, the grade_abs) this call
\* wrote, and no node is changed.
Unannotated(k) ==
    \/ G.node[G.edges[k].u].elevation = <<>>
    \/ G.node[G.edges[k].v].elevation = <<>>

C14_AbortsAtFirstUnannotatedEdge ==
    caller = "add_edge_grades" =>
        /\ G.node = G_entry.node
        /\ Len(G.edges) = Len(G_entry.edges)
        /\ pc \in {"edges", "edges_done"} =>
              \A k \in 1..Len(G.edges) : k < edge_i => ~Unannotated(k)
        /\ (pc = "raised" /\ err = "KeyError") =>
              /\ edge_i \in 1..Len(G.edges)
              /\ Unannotated(edge_i)
              /\ \A k \in 1..Len(G.edges) :
                    IF k < edge_i
                    THEN LET e == G.edges[k]
                         IN  /\ ~Unannotated(k)
                             /\ e.grade = <<Grade(G.node[e.u].elevation[1],
                                                  G.node[e.v].elevation[1],
                                                  e.length[1])>>
                             /\ add_absolute => e.grade_abs = <<Abs(e.grade[1])>>
                             /\ e = [G_entry.edges[k] EXCEPT
                                        !.grade = e.grade,
                                        !.grade_abs = e.grade_abs]
                    ELSE G.edges[k] = G_entry.edges[k]

\* The first call on a graph of three edges ends at the second: the first
\* edge has its grade from this call, the other two have none.
C14_Witness ==
    /\ caller = "add_edge_grades"
    /\ pc = "raised"
    /\ err = "KeyError"
    /\ Len(G.edges) = 3
    /\ edge_i = 2
    /\ add_absolute
    /\ G_entry.edges[1].grade = <<>>
    /\ G.edges[1].grade = <<0>>
    /\ G.edges[1].grade_abs = <<0>>
    /\ G.edges[2].grade = <<>>
    /\ G.edges[3].grade = <<>>
    /\ Unannotated(3)

\* C15: every cache entry holds, under its url, a response the service
\* gave for the locations of that very url and that parsed; a batch that
\* failed made no store, and when its url is in the cache all the same, a
\* later batch of the call with the same url was answered by the network.
C15_CacheHoldsOwnResponses ==
    /\ \A u \in DOMAIN cache :
          \E epoch \in 1..calls : \E body \in Bodies :
              LET reply == ServiceReply(u.fields[1], body, epoch)
              IN  reply.json = <<cache[u]>>
    /\ \A k \in 1..Len(batches) :
          Failed(batches[k]) =>
              /\ ~HasEvent("store", k)
              /\ batches[k].url \in DOMAIN cache =>
                    \E j \in (k + 1)..Len(batches) :
                        /\ batches[j].url = batches[k].url
                        /\ batches[j].source = "network"

\* A fetch has appended the first batch's response for its failed second
\* batch, of another url, and the cache holds the first batch's url alone.
C15_Witness ==
    /\ Len(batches) = 2
    /\ batches[1].source = "network"
    /\ Failed(batches[2])
    /\ batches[2].extended
    /\ batches[2].appended > 0
    /\ batches[2].url # batches[1].url
    /\ DOMAIN cache = {batches[1].url}

\* The response of batch b had another number of results than b had
\* locations.
WrongCount(b) == Answered(b) /\ Len(b.answer[1].results) # Len(b.chunk)

\* The fetch before the running one had the same arguments, got a response
\* with the wrong number of results and ended with the cardinality error.
WrongCountBefore ==
    /\ SameCallBefore
    /\ prev[1].pc = "raised"
    /\ prev[1].err = "CardinalityError"
    /\ \E k \in 1..Len(prev[1].batches) : WrongCount(prev[1].batches[k])

\* Batch k of the running fetch got, from the cache and without a request,
\* the response batch k of the fetch before had got.
ServedAsBefore(k) ==
    /\ batches[k].source = "cache"
    /\ batches[k].answer = prev[1].batches[k].answer
    /\ ~HasEvent("request", k)

\* C16 (as claimed): a fetch that follows a fetch with the same arguments
\* which got a wrong-count response and ended with the cardinality error is
\* served that response from the cache without a request for that batch, and
\* ends with the cardinality error too.  Stated for the later fetches that do
\* not end in the except block (C11).
C16_WrongCountRepeats ==
    (FetchEnded /\ WrongCountBefore /\ err # "UnboundLocalError") =>
        /\ \A k \in 1..Len(prev[1].batches) :
              WrongCount(prev[1].batches[k]) =>
                  k <= Len(batches) /\ ServedAsBefore(k)
        /\ FetchRaised
        /\ err = "CardinalityError"

\* C16 (amended): such a later fetch is served the wrong-count response from
\* the cache, without a request, for every such batch it gets to; it ends with
\* the cardinality error again when every batch of the fetch before had got a
\* response, and then it makes no request at all.
C16_WrongCountServedFromCache ==
    (FetchEnded /\ WrongCountBefore) =>
        /\ \A k \in 1..Len(prev[1].batches) :
              (WrongCount(prev[1].batches[k]) /\ k <= Len(batches)) =>
                  ServedAsBefore(k)
        /\ PrevAnswered =>
              /\ FetchRaised
              /\ err = "CardinalityError"
              /\ Count(events, "request") = 0
        /\ err # "UnboundLocalError" => Len(batches) = Len(prev[1].batches)

\* The second of two fetches ends with the cardinality error as the first
\* did, its short batch served from the cache.
C16_Witness ==
    /\ FetchRaised
    /\ err = "CardinalityError"
    /\ WrongCountBefore
    /\ PrevAnswered
    /\ Len(batches) = 2
    /\ ShortBatch(batches[2])
    /\ ServedAsBefore(2)
    /\ ~WrongCount(batches[1])

\* C17: add_node_elevations changes the graph in its last step only.  While
\* the call runs, and when it has ended with an error (raised by the fetch,
\* by the assertions on the node table or by the node-count check), the graph
\* is the one the call found: no elevation was added or changed.  A call that
\* ended well gave every node its elevation.
C17_NodePassAllOrNothing ==
    caller = "add_node_elevations" =>
        /\ pc \notin {"node_done", "idle"} => G = G_entry
        /\ (pc = "idle" /\ prev[1].pc # "node_done") => G = G_entry
        /\ pc = "node_done" =>
              /\ G.order = G_entry.order
              /\ G.edges = G_entry.edges
              /\ \A n \in DOMAIN G.node :
                    /\ G.node[n].elevation # <<>>
                    /\ G.node[n] = [G_entry.node[n] EXCEPT
                                       !.elevation = G.node[n].elevation]

\* add_node_elevations ended with the cardinality error after two batches
\* had brought results and been stored: the first node has the elevation it
\* had, the second has none.
C17_Witness ==
    /\ caller = "add_node_elevations"
    /\ pc = "raised"
    /\ err = "CardinalityError"
    /\ Len(results) >= 2
    /\ Cardinality(DOMAIN cache) >= 2
    /\ calls = 1
    /\ G.node[NodeIdAt(1)].elevation = <<OldElevation>>
    /\ G.node[NodeIdAt(2)].elevation = <<>>

====
